---- MODULE Spec2Model ----
(***************************************************************************)
(* A model of tmasolo0/voice-dictation: the global-hotkey manager          *)
(* (src/core/hotkeys.py), the configuration store                          *)
(* (src/core/config_manager.py) and the speech recognizer                  *)
(* (src/core/recognizer.py).                                               *)
(*                                                                         *)
(* Specifications:                                                         *)
(*   SpecHotkey  HotkeyManager: the caller thread (register, unregister,   *)
(*               start, stop), the listener threads start() launches and   *)
(*               the keyboard library's thread that runs _on_key_event.    *)
(*   SpecConfig  ConfigManager: construction, reload, get, set and save    *)
(*               against a config file the storage may refuse to read or   *)
(*               write, and a process that may die inside save().          *)
(*   SpecRecognizer  SpeechRecognizer: load_model and the two recognize    *)
(*               functions, called from two threads.                       *)
(*   SpecSettings    SpeechRecognizer: one thread that loads, recognizes   *)
(*               and reloads the settings while the configuration and the  *)
(*               dictionary file change.                                   *)
(***************************************************************************)
EXTENDS Integers, Sequences, FiniteSets, TLC

VARIABLES
    \* ---- HotkeyManager (src/core/hotkeys.py) ----
    callbacks,   \* self._callbacks: key string -> binding, or NoBinding
    hook,        \* self._hook: {h} for the handle keyboard.hook returned, {} for None
    running,     \* self._running
    threads,     \* the threads start() has launched: thread -> [pc, ret]
    os_hooks,    \* the handles the keyboard library currently has installed
    mpc,         \* the caller thread's position: "idle", or a line of stop()
    stop_pre,    \* ghost: self._running as stop() found it on entry
    handler,     \* the keyboard library's thread inside _on_key_event
    epi,         \* ghost: per key, the callbacks fired since the last latching 'down'
    hk_last,     \* ghost: the step that produced the current state
    \* ---- ConfigManager (src/core/config_manager.py) ----
    file,        \* the content of config.json
    config,      \* self._config
    initialized, \* self._initialized
    default_config, \* the module-level dict DEFAULT_CONFIG as it is now
    aliased,     \* the top-level keys whose dict self._config shares with DEFAULT_CONFIG
    origin,      \* ghost: where self._config came from at the last load
    cfg_last,    \* ghost: the operation that produced the current state
    \* ---- SpeechRecognizer (src/core/recognizer.py) ----
    model,        \* self._model: Null for None, or the WhisperModel built
    model_loaded, \* self._model_loaded
    settings,     \* self._model_size ... self._model_path, as one record
    callers,      \* the threads that call the recognizer: thread -> [pc, fn]
    build_log,    \* ghost: the outcome of every WhisperModel(...) call so far
    dictionary,   \* the content of dictionary.txt
    rec_last      \* ghost: the recognizer step that produced the current state

hkVars  == <<callbacks, hook, running, threads, os_hooks, mpc, stop_pre, handler, epi, hk_last>>
cfgVars == <<file, config, initialized, default_config, aliased, origin, cfg_last>>
recState == <<model, model_loaded, settings, callers, build_log, dictionary>>
recVars == <<recState, rec_last>>
vars    == <<hkVars, cfgVars, recVars>>

(***************************************************************************)
(*                              HotkeyManager                              *)
(***************************************************************************)

\* ---- bounds ----
MaxThreads == 3   \* start() calls that launch a listener thread
MaxDowns   == 3   \* 'down' events handled within one press of a key

\* ---- values ----
None      == "None"
NoBinding == [absent |-> TRUE]

\* Key identifiers as callers and the keyboard library spell them.
RawKeys   == {"F9", "f9", "f10"}
\* str.lower() on the identifiers of RawKeys.
Lower(k)  == CASE k = "F9" -> "f9" [] k = "F10" -> "f10" [] OTHER -> k
LowerKeys == {Lower(k) : k \in RawKeys}
EventTypes == {"down", "up"}

\* The (on_press, on_release) pairs callers register; either may be None.
CallbackIds == {"a", "b"}
RegArgs == {<<"a", "a">>, <<"b", None>>, <<None, "b">>}

Threads == 1 .. MaxThreads

NoFire  == [kind |-> "none", cb |-> None]
NoEpi   == [active |-> FALSE, downs |-> 0, closed |-> FALSE, press |-> 0, release |-> 0]
IdleHandler == [pc |-> "idle", key |-> None, type |-> None, arr_pressed |-> FALSE,
                live |-> FALSE, obj |-> NoBinding]
HkStep(op) == [op |-> op, key |-> None, type |-> None, args |-> <<None, None>>,
               arr_pressed |-> FALSE, obj_pressed |-> FALSE, live |-> FALSE,
               fired |-> NoFire, pre_running |-> FALSE]

\* ---- register / unregister (caller thread) ----

\* The dict entry register() stores (lines 37-41).
NewBinding(on_press, on_release) ==
    [on_press |-> on_press, on_release |-> on_release, pressed |-> FALSE]

\* Mutant of BindingKey: the identifier is used as given, not lower-cased.
BindingKey_AsGiven(key) == key

\* The dict key register() and unregister() address (lines 36, 45).
BindingKey(key) == Lower(key)

\* The handler's callback_data stops being the table's entry for `k` once that
\* entry is replaced or deleted: the handler then holds an orphaned dict.
Orphaned(keys) ==
    IF handler.pc = "l90" /\ handler.key \in keys
    THEN [handler EXCEPT !.live = FALSE] ELSE handler

register(key, on_press, on_release) ==
    /\ mpc = "idle"
    /\ callbacks' = [callbacks EXCEPT ![BindingKey(key)] = NewBinding(on_press, on_release)]
    /\ handler' = Orphaned({BindingKey(key)})
    /\ epi' = [k \in LowerKeys |-> IF k = Lower(key) THEN NoEpi ELSE epi[k]]
    /\ hk_last' = [HkStep("register") EXCEPT
                       !.key = key, !.args = <<on_press, on_release>>,
                       !.obj_pressed = /\ callbacks[Lower(key)] # NoBinding
                                       /\ callbacks[Lower(key)].pressed]
    /\ UNCHANGED <<hook, running, threads, os_hooks, mpc, stop_pre, cfgVars, recVars>>

unregister(key) ==
    /\ mpc = "idle"
    /\ callbacks' = [callbacks EXCEPT ![BindingKey(key)] = NoBinding]
    /\ handler' = Orphaned({BindingKey(key)})
    /\ epi' = [k \in LowerKeys |-> IF k = Lower(key) THEN NoEpi ELSE epi[k]]
    /\ hk_last' = [HkStep("unregister") EXCEPT !.key = key]
    /\ UNCHANGED <<hook, running, threads, os_hooks, mpc, stop_pre, cfgVars, recVars>>

unregister_all ==
    /\ mpc = "idle"
    /\ callbacks' = [k \in RawKeys |-> NoBinding]
    /\ handler' = Orphaned(RawKeys)
    /\ epi' = [k \in LowerKeys |-> NoEpi]
    /\ hk_last' = HkStep("unregister_all")
    /\ UNCHANGED <<hook, running, threads, os_hooks, mpc, stop_pre, cfgVars, recVars>>

\* ---- start / stop (caller thread) and the listener threads ----

Unstarted == {t \in Threads : threads[t].pc = "new"}
Alive     == {t \in Threads : threads[t].pc \in {"l74", "l74_assign", "l75"}}

\* start(), lines 55-63: a no-op when already running, else a new daemon thread.
start ==
    /\ mpc = "idle"
    /\ IF running
       THEN UNCHANGED <<running, threads>>
       ELSE /\ Unstarted # {}
            /\ running' = TRUE
            /\ LET t == CHOOSE u \in Unstarted : \A v \in Unstarted : u <= v
               IN  threads' = [threads EXCEPT ![t].pc = "l74"]
    /\ hk_last' = [HkStep("start") EXCEPT !.pre_running = running]
    /\ UNCHANGED <<callbacks, hook, os_hooks, mpc, stop_pre, handler, epi, cfgVars, recVars>>

\* _listener_loop, line 74, the call: keyboard.hook installs a handler and
\* returns its handle, or raises (the thread dies with the exception).
listener_hook(t) ==
    /\ threads[t].pc = "l74"
    /\ \/ /\ os_hooks' = os_hooks \cup {t}
          /\ threads' = [threads EXCEPT ![t] = [pc |-> "l74_assign", ret |-> t]]
          /\ hk_last' = HkStep("listener_hook")
       \/ /\ threads' = [threads EXCEPT ![t].pc = "crashed"]
          /\ hk_last' = HkStep("listener_hook_raised")
          /\ UNCHANGED os_hooks
    /\ UNCHANGED <<callbacks, hook, running, mpc, stop_pre, handler, epi, cfgVars, recVars>>

\* _listener_loop, line 74, the assignment to self._hook; then line 75,
\* keyboard.wait() with no hotkey, which blocks forever.
listener_assign(t) ==
    /\ threads[t].pc = "l74_assign"
    /\ hook' = {threads[t].ret}
    /\ threads' = [threads EXCEPT ![t].pc = "l75"]
    /\ hk_last' = HkStep("listener_assign")
    /\ UNCHANGED <<callbacks, running, os_hooks, mpc, stop_pre, handler, epi, cfgVars, recVars>>

\* stop(), line 67.
stop_l67 ==
    /\ mpc = "idle"
    /\ running' = FALSE
    /\ stop_pre' = running
    /\ mpc' = "l68"
    /\ hk_last' = [HkStep("stop_l67") EXCEPT !.pre_running = running]
    /\ UNCHANGED <<callbacks, hook, threads, os_hooks, handler, epi, cfgVars, recVars>>

\* stop(), line 68: if self._hook.
stop_l68 ==
    /\ mpc = "l68"
    /\ mpc' = IF hook # {} THEN "l69" ELSE "idle"
    /\ hk_last' = [HkStep("stop_l68") EXCEPT !.pre_running = stop_pre]
    /\ UNCHANGED <<callbacks, hook, running, threads, os_hooks, stop_pre, handler, epi, cfgVars, recVars>>

\* stop(), line 69: keyboard.unhook(self._hook).
stop_l69 ==
    /\ mpc = "l69"
    /\ os_hooks' = os_hooks \ hook
    /\ mpc' = "l70"
    /\ hk_last' = [HkStep("stop_l69") EXCEPT !.pre_running = stop_pre]
    /\ UNCHANGED <<callbacks, hook, running, threads, stop_pre, handler, epi, cfgVars, recVars>>

\* stop(), line 70: self._hook = None.
stop_l70 ==
    /\ mpc = "l70"
    /\ hook' = {}
    /\ mpc' = "idle"
    /\ hk_last' = [HkStep("stop_l70") EXCEPT !.pre_running = stop_pre]
    /\ UNCHANGED <<callbacks, running, threads, os_hooks, stop_pre, handler, epi, cfgVars, recVars>>

\* ---- _on_key_event (the keyboard library's thread) ----

FirePress(cb)   == IF cb # None THEN [kind |-> "press", cb |-> cb] ELSE NoFire
FireRelease(cb) == IF cb # None THEN [kind |-> "release", cb |-> cb] ELSE NoFire

\* Mutant of KeyEventBody: 'down' does not test the latch, so key-repeat fires
\* the press callback again.
KeyEventBody_RepeatFires(obj, type) ==
    IF type = "down"
    THEN [pressed |-> TRUE, fired |-> FirePress(obj.on_press)]
    ELSE IF type = "up" /\ obj.pressed
    THEN [pressed |-> FALSE, fired |-> FireRelease(obj.on_release)]
    ELSE [pressed |-> obj.pressed, fired |-> NoFire]

\* Mutant of KeyEventBody: 'up' does not test the latch.
KeyEventBody_UpUnlatched(obj, type) ==
    IF type = "down" /\ ~obj.pressed
    THEN [pressed |-> TRUE, fired |-> FirePress(obj.on_press)]
    ELSE IF type = "up"
    THEN [pressed |-> FALSE, fired |-> FireRelease(obj.on_release)]
    ELSE [pressed |-> obj.pressed, fired |-> NoFire]

\* Lines 90-98 on the dict callback_data refers to: the new latch and the
\* callback invoked.
KeyEventBody(obj, type) ==
    IF type = "down" /\ ~obj.pressed
    THEN [pressed |-> TRUE, fired |-> FirePress(obj.on_press)]
    ELSE IF type = "up" /\ obj.pressed
    THEN [pressed |-> FALSE, fired |-> FireRelease(obj.on_release)]
    ELSE [pressed |-> obj.pressed, fired |-> NoFire]

\* Ghost: the episode of key k after a handler step on `obj` (the table's entry
\* when `live`, an orphaned dict otherwise) that fired `fired`.
NextEpi(e, obj, type, live, fired) ==
    LET np == IF fired.kind = "press" THEN 1 ELSE 0
        nr == IF fired.kind = "release" THEN 1 ELSE 0
    IN  IF type = "down" /\ ~obj.pressed
        THEN [active |-> live, downs |-> 1, closed |-> FALSE, press |-> np, release |-> nr]
        ELSE [active  |-> e.active,
              downs   |-> IF live /\ e.active /\ type = "down" THEN e.downs + 1 ELSE e.downs,
              closed  |-> e.closed \/ (live /\ type = "up"),
              press   |-> e.press + np,
              release |-> e.release + nr]

\* Lines 84 and 87: key_name = event.name.lower(); if key_name in self._callbacks.
\* The keyboard library calls the handler only while a hook is installed.
on_key_event_l87(name, type) ==
    /\ handler.pc = "idle"
    /\ os_hooks # {}
    /\ type = "down" => epi[Lower(name)].downs < MaxDowns
    /\ LET key_name == Lower(name)
           found    == callbacks[key_name] # NoBinding
       IN  /\ handler' = IF found
                         THEN [pc |-> "l88", key |-> key_name, type |-> type,
                               arr_pressed |-> callbacks[key_name].pressed,
                               live |-> FALSE, obj |-> NoBinding]
                         ELSE IdleHandler
           /\ hk_last' = [HkStep("event_l87") EXCEPT !.key = key_name, !.type = type,
                              !.arr_pressed = found /\ callbacks[key_name].pressed]
    /\ UNCHANGED <<callbacks, hook, running, threads, os_hooks, mpc, stop_pre, epi, cfgVars, recVars>>

\* Line 88: callback_data = self._callbacks[key_name]; a KeyError when the
\* entry was deleted since line 87.
on_key_event_l88 ==
    /\ handler.pc = "l88"
    /\ IF callbacks[handler.key] = NoBinding
       THEN /\ handler' = IdleHandler
            /\ hk_last' = [HkStep("event_keyerror") EXCEPT
                               !.key = handler.key, !.type = handler.type]
       ELSE /\ handler' = [handler EXCEPT !.pc = "l90", !.live = TRUE,
                                          !.obj = callbacks[handler.key]]
            /\ hk_last' = [HkStep("event_l88") EXCEPT
                               !.key = handler.key, !.type = handler.type,
                               !.arr_pressed = handler.arr_pressed]
    /\ UNCHANGED <<callbacks, hook, running, threads, os_hooks, mpc, stop_pre, epi, cfgVars, recVars>>

\* Lines 90-98. Only this thread reads or writes callback_data['pressed'], so the
\* test, the write and the callback are one step.
on_key_event_l90 ==
    /\ handler.pc = "l90"
    /\ LET k   == handler.key
           obj == handler.obj
           r   == KeyEventBody(obj, handler.type)
       IN  /\ callbacks' = IF handler.live
                           THEN [callbacks EXCEPT ![k].pressed = r.pressed]
                           ELSE callbacks
           /\ epi' = [epi EXCEPT ![k] = NextEpi(@, obj, handler.type, handler.live, r.fired)]
           /\ hk_last' = [HkStep("event_l90") EXCEPT
                              !.key = k, !.type = handler.type,
                              !.arr_pressed = handler.arr_pressed,
                              !.obj_pressed = obj.pressed,
                              !.live = handler.live, !.fired = r.fired]
    /\ handler' = IdleHandler
    /\ UNCHANGED <<hook, running, threads, os_hooks, mpc, stop_pre, cfgVars, recVars>>

\* ---- the HotkeyManager specification ----

InitHotkeyVars ==
    /\ callbacks = [k \in RawKeys |-> NoBinding]
    /\ hook = {}
    /\ running = FALSE
    /\ threads = [t \in Threads |-> [pc |-> "new", ret |-> 0]]
    /\ os_hooks = {}
    /\ mpc = "idle"
    /\ stop_pre = FALSE
    /\ handler = IdleHandler
    /\ epi = [k \in LowerKeys |-> NoEpi]
    /\ hk_last = HkStep("init")

\* The state after start() and the listener thread's line 74: one hook
\* installed, the listener blocked in keyboard.wait().
Listening ==
    /\ callbacks = [k \in RawKeys |-> NoBinding]
    /\ hook = {1}
    /\ running = TRUE
    /\ threads = [t \in Threads |-> IF t = 1 THEN [pc |-> "l75", ret |-> 1]
                                             ELSE [pc |-> "new", ret |-> 0]]
    /\ os_hooks = {1}
    /\ mpc = "idle"
    /\ stop_pre = FALSE
    /\ handler = IdleHandler
    /\ epi = [k \in LowerKeys |-> NoEpi]
    /\ hk_last = HkStep("listener_assign")

\* The binding table and the key events of a listening manager.
NextHotkey ==
    \/ \E key \in RawKeys, a \in RegArgs : register(key, a[1], a[2])
    \/ \E key \in RawKeys : unregister(key)
    \/ unregister_all
    \/ \E name \in RawKeys, type \in EventTypes : on_key_event_l87(name, type)
    \/ on_key_event_l88
    \/ on_key_event_l90

\* The state after construction and register('f9', a, a).
Registered ==
    /\ callbacks = [k \in RawKeys |-> IF k = "f9" THEN NewBinding("a", "a") ELSE NoBinding]
    /\ hook = {}
    /\ running = FALSE
    /\ threads = [t \in Threads |-> [pc |-> "new", ret |-> 0]]
    /\ os_hooks = {}
    /\ mpc = "idle"
    /\ stop_pre = FALSE
    /\ handler = IdleHandler
    /\ epi = [k \in LowerKeys |-> NoEpi]
    /\ hk_last = [HkStep("register") EXCEPT !.key = "f9", !.args = <<"a", "a">>]

\* start(), stop(), the listener threads and the events of the bound key.
NextListener ==
    \/ \E type \in EventTypes : on_key_event_l87("f9", type)
    \/ on_key_event_l88
    \/ on_key_event_l90
    \/ start
    \/ stop_l67
    \/ stop_l68
    \/ stop_l69
    \/ stop_l70
    \/ \E t \in Threads : listener_hook(t)
    \/ \E t \in Threads : listener_assign(t)

(***************************************************************************)
(*                              ConfigManager                              *)
(***************************************************************************)

CONFIG_VERSION == 2

\* ---- JSON values: one tagged record per Python type ----
Null    == [null |-> TRUE]          \* None / null
Num(n)  == [num |-> n]              \* int
Flt(t)  == [tenths |-> t]           \* float, in tenths: Flt(24) is 2.4
Str(s)  == [str |-> s]
Bool(b) == [bool |-> b]
List(q) == [list |-> q]
Map(f)  == [map |-> f]              \* dict: a function from its keys
EmptyMap == Map(<<>>)

IsMap(n)      == "map" \in DOMAIN n
HasKey(m, k)  == k \in DOMAIN m.map
Put(m, k, v)  == Map([j \in DOMAIN m.map \cup {k} |-> IF j = k THEN v ELSE m.map[j]])
\* dict.pop(k, None): the value removed, None when the key is missing.
PopValue(m, k) == IF HasKey(m, k) THEN m.map[k] ELSE Null

DEFAULT_CONFIG ==
    Map([version |-> Num(CONFIG_VERSION),
         widget |-> Map([position |-> Map([x |-> Null, y |-> Null]),
                         size |-> Num(150),
                         hide_in_fullscreen |-> Bool(TRUE)]),
         recognition |-> Map([hotkey |-> Str("f9"),
                              model |-> Str("large-v3-turbo"),
                              device |-> Str("cuda"),
                              compute_type |-> Str("float16"),
                              language |-> Str("auto"),
                              beam_size |-> Num(5),
                              temperature |-> Flt(3),
                              condition_on_previous_text |-> Bool(FALSE),
                              compression_ratio_threshold |-> Flt(24),
                              log_prob_threshold |-> Flt(-10),
                              no_speech_threshold |-> Flt(6),
                              repetition_penalty |-> Flt(12),
                              no_repeat_ngram_size |-> Num(3),
                              suppress_tokens |-> List(<<-1>>),
                              hallucination_silence_threshold |-> Flt(20)]),
         system |-> Map([autostart |-> Bool(FALSE),
                         start_minimized |-> Bool(FALSE)])])

\* ---- the config file ----
FileAbsent   == [absent |-> TRUE]    \* CONFIG_FILE.exists() is False
FileCorrupt  == [corrupt |-> TRUE]   \* json.load raises JSONDecodeError
FileJson(t)  == [json |-> t]         \* json.load returns t
NoConfig     == [unset |-> TRUE]     \* self._config = None (line 57)

IsJson(f) == "json" \in DOMAIN f

ReadOutcomes == {"ok", "ioerror"}
SaveOutcomes == {"ok", "open_fails", "write_fails"}

\* save(), lines 139-143, by what the storage does: the file holds the dumped
\* tree; or open() raises and the file is untouched; or open(.., 'w') has
\* truncated the file and the write raises, leaving an incomplete document. The
\* IOError is caught and printed either way.
SaveFile(cfg, f, outcome) ==
    CASE outcome = "ok"          -> FileJson(cfg)
      [] outcome = "open_fails"  -> f
      [] outcome = "write_fails" -> FileCorrupt

\* Mutant of Migrate: one coordinate is enough to carry the position over.
Migrate_EitherCoordinate(cfg) ==
    LET old_x == PopValue(cfg, "window_x")
        old_y == PopValue(cfg, "window_y")
        new_config == DEFAULT_CONFIG
    IN  IF old_x # Null \/ old_y # Null
        THEN [new_config EXCEPT !.map.widget.map.position =
                                    Map([x |-> old_x, y |-> old_y])]
        ELSE new_config

\* _migrate(), lines 85-96: the tree it builds from a version-less config.
Migrate(cfg) ==
    LET old_x == PopValue(cfg, "window_x")
        old_y == PopValue(cfg, "window_y")
        new_config == DEFAULT_CONFIG
    IN  IF old_x # Null /\ old_y # Null
        THEN [new_config EXCEPT !.map.widget.map.position =
                                    Map([x |-> old_x, y |-> old_y])]
        ELSE new_config

\* _migrate(), line 83.
NeedsMigration(cfg) == ~HasKey(cfg, "version")

\* Mutant of LoadDefaults: the defaults are not saved.
LoadDefaults_NoSave(f, path, saveOutcome) ==
    [config |-> DEFAULT_CONFIG, file |-> f, path |-> path, save |-> saveOutcome]

\* _load(), lines 75-76 and 78-79: defaults, then save().
LoadDefaults(f, path, saveOutcome) ==
    [config |-> DEFAULT_CONFIG, file |-> SaveFile(DEFAULT_CONFIG, f, saveOutcome),
     path |-> path, save |-> saveOutcome]

\* _load(), lines 68-79, with _migrate(): the new self._config, the new file,
\* the path taken and what save() met ("none": save() was not called).
Load(f, readOutcome, saveOutcome) ==
    IF f = FileAbsent
    THEN LoadDefaults(f, "absent", saveOutcome)
    ELSE IF readOutcome = "ioerror" \/ f = FileCorrupt
    THEN LoadDefaults(f, "fallback", saveOutcome)
    ELSE IF NeedsMigration(f.json)
    THEN LET new_config == Migrate(f.json)
         IN  [config |-> new_config, file |-> SaveFile(new_config, f, saveOutcome),
              path |-> "migrated", save |-> saveOutcome]
    ELSE [config |-> f.json, file |-> f, path |-> "loaded", save |-> "none"]

\* ---- set ----
TypeError == [error |-> "TypeError"]
IsError(n) == "error" \in DOMAIN n

\* Mutant of SetIn: an intermediate key that is absent is not created.
RECURSIVE SetIn_NoCreate(_, _, _)
SetIn_NoCreate(target, keys, value) ==
    IF ~IsMap(target) THEN TypeError
    ELSE IF Len(keys) = 1 THEN Put(target, keys[1], value)
    ELSE IF ~HasKey(target, keys[1]) THEN target
    ELSE LET sub == SetIn_NoCreate(target.map[keys[1]], Tail(keys), value)
         IN  IF IsError(sub) THEN sub ELSE Put(target, keys[1], sub)

\* set(), lines 128-135, on the node `target`: the node after the assignment,
\* or TypeError when the walk meets a node that is not a dict.
RECURSIVE SetIn(_, _, _)
SetIn(target, keys, value) ==
    IF ~IsMap(target) THEN TypeError
    ELSE IF Len(keys) = 1 THEN Put(target, keys[1], value)
    ELSE LET child == IF HasKey(target, keys[1]) THEN target.map[keys[1]] ELSE EmptyMap
             sub   == SetIn(child, Tail(keys), value)
         IN  IF IsError(sub) THEN sub ELSE Put(target, keys[1], sub)

\* ---- get ----

\* Mutant of GetIn: no isinstance test, so `key in value` raises on a node that
\* is not a dict.
RECURSIVE GetIn_NoTypeCheck(_, _, _)
GetIn_NoTypeCheck(value, keys, default) ==
    IF keys = <<>> THEN value
    ELSE IF ~IsMap(value) THEN TypeError
    ELSE IF HasKey(value, keys[1])
    THEN GetIn_NoTypeCheck(value.map[keys[1]], Tail(keys), default)
    ELSE default

\* get(), lines 108-114, from the node `value` on.
RECURSIVE GetIn(_, _, _)
GetIn(value, keys, default) ==
    IF keys = <<>> THEN value
    ELSE IF IsMap(value) /\ HasKey(value, keys[1])
    THEN GetIn(value.map[keys[1]], Tail(keys), default)
    ELSE default

\* ---- save, seen by its caller, and a process that dies inside it ----

\* save() has no return statement: its caller gets None whether the write
\* succeeded or the IOError was caught (lines 137-143).
SaveReturn(outcome) == Null

\* Where the process can die inside save(): before open(); after open(.., 'w')
\* has truncated the file; after part of the document is written; after all of
\* it is written.
CrashPoints == {"before_open", "after_open", "mid_write", "after_write"}

\* The file a process that died at `point` of save() leaves (lines 140-141):
\* an empty or a partial document does not parse.
CrashFile(cfg, f, point) ==
    CASE point = "before_open" -> f
      [] point = "after_open"  -> FileCorrupt
      [] point = "mid_write"   -> FileCorrupt
      [] point = "after_write" -> FileJson(cfg)

\* ---- the inputs ----
LegacyX == {Null, Num(10)}
LegacyY == {Null, Num(20)}

\* A version-less (legacy) file: window_x / window_y present or not, with a
\* null or a number, and possibly another legacy field.
LegacyFile(hasX, x, hasY, y, hasOther) ==
    LET keys == (IF hasX THEN {"window_x"} ELSE {}) \cup
                (IF hasY THEN {"window_y"} ELSE {}) \cup
                (IF hasOther THEN {"model"} ELSE {})
    IN  FileJson(Map([k \in keys |-> CASE k = "window_x" -> x
                                       [] k = "window_y" -> y
                                       [] OTHER -> Str("small")]))

LegacyFiles ==
    {LegacyFile(hx, x, hy, y, o) :
        hx \in BOOLEAN, x \in LegacyX, hy \in BOOLEAN, y \in LegacyY, o \in BOOLEAN}

StaleVersionConfig == [DEFAULT_CONFIG EXCEPT !.map.version = Num(1)]
UserConfig == [DEFAULT_CONFIG EXCEPT !.map.widget.map.size = Num(200)]

SampleFiles ==
    {FileAbsent, FileCorrupt, FileJson(DEFAULT_CONFIG), FileJson(UserConfig),
     FileJson(StaleVersionConfig)} \cup LegacyFiles

\* The argument lists of set(): a path and a value, or too few arguments.
SetArgs ==
    {<<"widget", "size", Num(100)>>,
     <<"widget", "position", "x", Num(30)>>,
     <<"extra", "a", Num(1)>>,
     <<"extra", Num(5)>>,
     <<"version", "k", Num(1)>>,
     <<"widget">>}

\* The paths and defaults of get(): present, missing at the last key, missing
\* at the first key, through a node that is not a dict, and no key at all.
GetPaths ==
    {<<"widget", "size">>, <<"widget", "position", "x">>, <<"widget", "nope">>,
     <<"extra", "a">>, <<"version", "k">>, <<>>}
GetDefaults == {Null, Str("fallback")}

\* The recognizer step last taken, for the properties: the caller and the
\* function, the recognizer's fields before the step, what the step returned
\* or raised, and the language argument, the outcome of reading the
\* dictionary file, the keyword arguments and the backend of a transcribe call.
RecStep(op) ==
    [op |-> op, caller |-> "none", fn |-> "none", path |-> "none",
     pre_model |-> Null, pre_loaded |-> FALSE, pre_settings |-> Null,
     pre_builds |-> 0, ret |-> Null, raised |-> "none",
     language |-> Null, read |-> "none", call |-> Null, backend |-> Null]

\* ---- the operations ----
CfgStep(op) ==
    [op |-> op, pre_file |-> FileAbsent, pre_config |-> NoConfig,
     read |-> "none", save |-> "none", path |-> "none", raised |-> "none",
     args |-> <<>>, default |-> Null, ret |-> Null]

\* Mutant of DeepCopy: DEFAULT_CONFIG.copy(), which copies the top-level dict
\* and shares the nested ones.
DeepCopy_Shallow(tree) ==
    [tree |-> tree, shared |-> {k \in DOMAIN tree.map : IsMap(tree.map[k])}]

\* copy.deepcopy(DEFAULT_CONFIG), lines 75, 78 and 88: an equal tree that
\* shares no dict with the original.
DeepCopy(tree) == [tree |-> tree, shared |-> {}]

\* The paths of _load() on which self._config is a copy of DEFAULT_CONFIG.
FromDefaults == {"absent", "fallback", "migrated"}

\* _load() as __init__ (line 63) and reload() (line 159) run it. The copy is
\* taken of DEFAULT_CONFIG as it is at the time; Load writes it as the
\* built-in tree, which DefaultsPristine shows to be the same. The
\* assignments of lines 93-94 go through new_config["widget"] and land in
\* DEFAULT_CONFIG as well when that dict is shared.
DoLoad(op, readOutcome, saveOutcome) ==
    LET r      == Load(file, readOutcome, saveOutcome)
        shares == IF r.path \in FromDefaults THEN DeepCopy(default_config).shared
                  ELSE {}
    IN  /\ config' = r.config
        /\ file' = r.file
        /\ aliased' = shares
        /\ origin' = IF r.path \in FromDefaults THEN "defaults" ELSE "file"
        /\ default_config' =
              IF r.path = "migrated" /\ "widget" \in shares
              THEN [default_config EXCEPT !.map.widget = r.config.map.widget]
              ELSE default_config
        /\ cfg_last' = [CfgStep(op) EXCEPT
                            !.pre_file = file, !.pre_config = config,
                            !.read = IF file = FileAbsent THEN "none" ELSE readOutcome,
                            !.save = r.save, !.path = r.path]

\* __init__(), lines 61-64: the first construction loads.
construct(readOutcome, saveOutcome) ==
    /\ ~initialized
    /\ DoLoad("load", readOutcome, saveOutcome)
    /\ initialized' = TRUE
    /\ UNCHANGED <<hkVars, recVars>>

\* Mutant of reload: the file is not read and the tree in memory is kept.
reload_KeepsMemory(readOutcome, saveOutcome) ==
    /\ initialized
    /\ cfg_last' = [CfgStep("reload") EXCEPT
                        !.pre_file = file, !.pre_config = config,
                        !.read = IF file = FileAbsent THEN "none" ELSE readOutcome,
                        !.path = "loaded"]
    /\ UNCHANGED <<file, config, initialized, default_config, aliased, origin,
                   hkVars, recVars>>

\* reload(), lines 157-159.
reload(readOutcome, saveOutcome) ==
    /\ initialized
    /\ DoLoad("reload", readOutcome, saveOutcome)
    /\ UNCHANGED <<initialized, hkVars, recVars>>

\* set(), lines 124-135.
set(keys_and_value) ==
    /\ initialized
    /\ LET n == Len(keys_and_value)
       IN  IF n < 2
           THEN /\ cfg_last' = [CfgStep("set") EXCEPT !.pre_file = file,
                                    !.pre_config = config, !.raised = "ValueError",
                                    !.args = keys_and_value]
                /\ UNCHANGED <<config, default_config, aliased>>
           ELSE LET keys  == SubSeq(keys_and_value, 1, n - 1)
                    value == keys_and_value[n]
                    t     == SetIn(config, keys, value)
                    done  == ~IsError(t)
                IN  /\ config' = IF IsError(t) THEN config ELSE t
                    \* an assignment inside a dict shared with DEFAULT_CONFIG
                    \* is an assignment to DEFAULT_CONFIG; an assignment to a
                    \* top-level key rebinds it in self._config only
                    /\ default_config' =
                          IF done /\ Len(keys) >= 2 /\ keys[1] \in aliased
                          THEN SetIn(default_config, keys, value)
                          ELSE default_config
                    /\ aliased' = IF done /\ Len(keys) = 1
                                  THEN aliased \ {keys[1]} ELSE aliased
                    /\ cfg_last' = [CfgStep("set") EXCEPT !.pre_file = file,
                                        !.pre_config = config,
                                        !.args = keys_and_value,
                                        !.raised = IF IsError(t) THEN "TypeError" ELSE "none"]
    /\ rec_last' = RecStep("config_set")
    /\ UNCHANGED <<file, initialized, origin, hkVars, recState>>

\* save(), lines 137-143.
save(saveOutcome) ==
    /\ initialized
    /\ file' = SaveFile(config, file, saveOutcome)
    /\ cfg_last' = [CfgStep("save") EXCEPT !.pre_file = file, !.pre_config = config,
                        !.save = saveOutcome, !.ret = SaveReturn(saveOutcome)]
    /\ UNCHANGED <<config, initialized, default_config, aliased, origin, hkVars, recVars>>

\* get(), lines 100-114.
get(keys, default) ==
    /\ initialized
    /\ LET r == GetIn(config, keys, default)
       IN  cfg_last' = [CfgStep("get") EXCEPT !.pre_file = file, !.pre_config = config,
                            !.args = keys, !.default = default,
                            !.ret = IF IsError(r) THEN Null ELSE r,
                            !.raised = IF IsError(r) THEN "TypeError" ELSE "none"]
    /\ UNCHANGED <<file, config, initialized, default_config, aliased, origin,
                   hkVars, recVars>>

\* The process dies inside save() (lines 139-141); the next process starts
\* with no ConfigManager constructed.
crash_in_save(point) ==
    /\ initialized
    /\ file' = CrashFile(config, file, point)
    /\ config' = NoConfig
    /\ initialized' = FALSE
    /\ default_config' = DEFAULT_CONFIG
    /\ aliased' = {}
    /\ origin' = "none"
    /\ cfg_last' = [CfgStep("crash_in_save") EXCEPT !.pre_file = file,
                        !.pre_config = config, !.path = point]
    /\ UNCHANGED <<hkVars, recVars>>

\* ---- the ConfigManager specification ----

(***************************************************************************)
(*                            SpeechRecognizer                             *)
(***************************************************************************)

\* ---- bounds ----
MaxBuilds == 2      \* WhisperModel(...) calls in one behaviour

\* ---- values ----
Callers == {"ui", "worker"}
Functions == {"recognize", "recognize_with_info"}
BuildOutcomes == {"ok", "raises"}

\* The object WhisperModel(path, device=, compute_type=) returns; `n` tells
\* one construction from another.
WhisperModel(n, path, device, compute_type) ==
    [id |-> n, path |-> path, device |-> device, compute_type |-> compute_type]

\* The settings as __init__ reads them from the config, lines 25-38.
ReadSettings(cfg) ==
    LET model_size == GetIn(cfg, <<"recognition", "model">>, Str("large-v3-turbo"))
    IN  [model_size   |-> model_size,
         device       |-> GetIn(cfg, <<"recognition", "device">>, Str("cuda")),
         compute_type |-> GetIn(cfg, <<"recognition", "compute_type">>, Str("float16")),
         beam_size    |-> GetIn(cfg, <<"recognition", "beam_size">>, Num(5)),
         language     |-> GetIn(cfg, <<"recognition", "language">>, Str("auto")),
         temperature  |-> GetIn(cfg, <<"recognition", "temperature">>, Flt(3)),
         compression_ratio_threshold |->
             GetIn(cfg, <<"recognition", "compression_ratio_threshold">>, Flt(24)),
         log_prob_threshold |->
             GetIn(cfg, <<"recognition", "log_prob_threshold">>, Flt(-10)),
         no_speech_threshold |->
             GetIn(cfg, <<"recognition", "no_speech_threshold">>, Flt(6)),
         model_path   |-> <<"models", model_size>>]

\* Mutant of ReloadSettings: the beam size is not read again.
ReloadSettings_KeepsBeam(cfg, old) ==
    [ReadSettings(cfg) EXCEPT !.beam_size = old.beam_size]

\* reload_settings(), lines 174-185: every field is read again.
ReloadSettings(cfg, old) == ReadSettings(cfg)

\* ---- the dictionary file and get_initial_prompt ----
DictAbsent == [absent |-> TRUE]
DictLines(q) == [lines |-> q]           \* text.splitlines()

\* str.strip() on the lines and texts of the model.
Strip(s) ==
    CASE s = " Docker "       -> "Docker"
      [] s = "  "             -> ""
      [] s = " Hello world "  -> "Hello world"
      [] OTHER                -> s

\* sep.join(terms)
RECURSIVE Join(_, _)
Join(terms, sep) ==
    IF terms = <<>> THEN ""
    ELSE IF Len(terms) = 1 THEN terms[1]
    ELSE terms[1] \o sep \o Join(Tail(terms), sep)

\* What DICTIONARY_FILE.read_text(encoding='utf-8') can do (line 150): return
\* the text, raise an IOError, or raise UnicodeDecodeError on bytes that are
\* not UTF-8.
DictReadOutcomes == {"ok", "ioerror", "decode_error"}
UnicodeDecodeError == [error |-> "UnicodeDecodeError"]

\* ConfigManager.get_initial_prompt(), config_manager.py lines 145-155: only
\* IOError is caught; UnicodeDecodeError is a ValueError and leaves the
\* function.
get_initial_prompt(dict, readOutcome) ==
    IF dict = DictAbsent THEN Str("")
    ELSE IF readOutcome = "ioerror" THEN Str("")
    ELSE IF readOutcome = "decode_error" THEN UnicodeDecodeError
    ELSE LET stripped == [i \in 1..Len(dict.lines) |-> Strip(dict.lines[i])]
             terms    == SelectSeq(stripped, LAMBDA t : t # "")
         IN  Str(Join(terms, ", "))

\* ---- recognize ----

\* Python's truth value of an argument: None and the empty string are false.
Falsy(v) == v = Null \/ v = Str("")

\* Mutant of LangParam: the literal 'auto' is handed to the backend.
LangParam_AutoPassed(language, configured) ==
    IF Falsy(language) THEN configured ELSE language

\* Lines 94-95: the language handed to the backend.
LangParam(language, configured) ==
    LET lang == IF Falsy(language) THEN configured ELSE language
    IN  IF lang = Str("auto") THEN Null ELSE lang

\* The keyword arguments of self._model.transcribe, lines 98-109 (and 140-151).
TranscribeKwargs(s, prompt, language, vad_filter) ==
    [language                    |-> LangParam(language, s.language),
     vad_filter                  |-> vad_filter,
     initial_prompt              |-> prompt,
     condition_on_previous_text  |-> FALSE,
     beam_size                   |-> s.beam_size,
     temperature                 |-> s.temperature,
     compression_ratio_threshold |-> s.compression_ratio_threshold,
     log_prob_threshold          |-> s.log_prob_threshold,
     no_speech_threshold         |-> s.no_speech_threshold]

\* What the backend hands back: the texts of the segments, and the info.
Segments == {<<>>, <<" Hello", " world ">>}
Info == [language |-> "en", language_probability |-> 9]

\* Lines 112-113 and 153-160: the return value.
RecognizeReturn(fn, segs) ==
    LET text == Strip(Join(segs, ""))
    IN  IF fn = "recognize" THEN Str(text)
        ELSE [tuple |-> <<Str(text),
                          Map([language |-> Str(Info.language),
                               language_probability |-> Flt(Info.language_probability)])>>]

\* ---- load_model ----

\* Mutant of LoadEntry: no test of the loaded flag.
LoadEntry_AlwaysBuilds(loaded) == "l55"

\* Lines 47-48: a loaded recognizer returns True at once.
LoadEntry(loaded) == IF loaded THEN "return_true" ELSE "l55"

\* Mutant of LoadFailed: the flag is set although the constructor raised.
LoadFailed_MarksLoaded(m, loaded) ==
    [model |-> m, model_loaded |-> TRUE, ret |-> Bool(FALSE)]

\* Lines 65-67: the exception of the constructor is caught; nothing was
\* assigned; False is returned.
LoadFailed(m, loaded) ==
    [model |-> m, model_loaded |-> loaded, ret |-> Bool(FALSE)]

\* Mutant of RecognizeEntry: no test of the loaded flag.
RecognizeEntry_NoCheck(loaded) == "l94"

\* Lines 90-91 (and 134-135).
RecognizeEntry(loaded) == IF loaded THEN "l94" ELSE "RuntimeError"

\* ---- the inputs ----
Languages == {Null, Str(""), Str("ru"), Str("auto")}    \* the language= argument
Dictionaries ==
    {DictAbsent, DictLines(<<"Git", "", " Docker ">>), DictLines(<<"  ", "Kubernetes">>)}

\* A recognition section as a caller may write it in one set(): some keys
\* only.
TunedRecognition ==
    Map([language |-> Str("en"), temperature |-> Flt(0),
         compression_ratio_threshold |-> Flt(20),
         log_prob_threshold |-> Flt(-5), no_speech_threshold |-> Flt(5)])
RecSetArgs ==
    {<<"recognition", "model", Str("small")>>,
     <<"recognition", "beam_size", Num(10)>>,
     <<"recognition", TunedRecognition>>}

\* ---- the operations ----
Idle == [pc |-> "idle", fn |-> "none"]

\* The step `op` of caller c, with the fields as the step found them.
RecStepOf(op, c) ==
    [RecStep(op) EXCEPT !.caller = c, !.fn = callers[c].fn,
                        !.pre_model = model, !.pre_loaded = model_loaded,
                        !.pre_settings = settings, !.pre_builds = Len(build_log)]

\* The WhisperModel(...) calls made or about to be made.
BuildsCommitted ==
    Len(build_log) + Cardinality({c \in Callers : callers[c].pc = "l55"})

\* load_model(), lines 47-48: the test of the flag.
load_model_l47(c) ==
    /\ callers[c].pc = "idle"
    /\ IF LoadEntry(model_loaded) = "return_true"
       THEN /\ rec_last' = [RecStepOf("load_model", c) EXCEPT
                                !.path = "already", !.ret = Bool(TRUE)]
            /\ UNCHANGED callers
       ELSE /\ BuildsCommitted < MaxBuilds
            /\ callers' = [callers EXCEPT ![c].pc = "l55"]
            /\ rec_last' = RecStepOf("load_model_l47", c)
    /\ UNCHANGED <<model, model_loaded, settings, build_log, dictionary, hkVars, cfgVars>>

\* load_model(), lines 55-59 and 65-67: the constructor returns or raises.
load_model_l55(c, outcome) ==
    /\ callers[c].pc = "l55"
    /\ build_log' = Append(build_log, outcome)
    /\ IF outcome = "ok"
       THEN /\ model' = WhisperModel(Len(build_log) + 1, settings.model_path,
                                     settings.device, settings.compute_type)
            /\ callers' = [callers EXCEPT ![c].pc = "l61"]
            /\ rec_last' = RecStepOf("load_model_l55", c)
            /\ UNCHANGED model_loaded
       ELSE LET r == LoadFailed(model, model_loaded)
            IN  /\ model' = r.model
                /\ model_loaded' = r.model_loaded
                /\ callers' = [callers EXCEPT ![c] = Idle]
                /\ rec_last' = [RecStepOf("load_model", c) EXCEPT
                                    !.path = "failed", !.ret = r.ret]
    /\ UNCHANGED <<settings, dictionary, hkVars, cfgVars>>

\* load_model(), lines 61-63.
load_model_l61(c) ==
    /\ callers[c].pc = "l61"
    /\ model_loaded' = TRUE
    /\ callers' = [callers EXCEPT ![c] = Idle]
    /\ rec_last' = [RecStepOf("load_model", c) EXCEPT
                        !.path = "loaded", !.ret = Bool(TRUE)]
    /\ UNCHANGED <<model, settings, build_log, dictionary, hkVars, cfgVars>>

\* A thread calls recognize() or recognize_with_info().
recognize_call(c, fn) ==
    /\ callers[c].pc = "idle"
    /\ callers' = [callers EXCEPT ![c] = [pc |-> "l90", fn |-> fn]]
    /\ rec_last' = [RecStepOf("recognize_call", c) EXCEPT !.fn = fn]
    /\ UNCHANGED <<model, model_loaded, settings, build_log, dictionary, hkVars, cfgVars>>

\* recognize(), lines 90-91 (recognize_with_info: 134-135).
recognize_l90(c) ==
    /\ callers[c].pc = "l90"
    /\ IF RecognizeEntry(model_loaded) = "RuntimeError"
       THEN /\ callers' = [callers EXCEPT ![c] = Idle]
            /\ rec_last' = [RecStepOf("recognize", c) EXCEPT
                                !.path = "unloaded", !.raised = "RuntimeError"]
       ELSE /\ callers' = [callers EXCEPT ![c].pc = "l94"]
            /\ rec_last' = RecStepOf("recognize_l90", c)
    /\ UNCHANGED <<model, model_loaded, settings, build_log, dictionary, hkVars, cfgVars>>

\* recognize(), lines 94-113 (recognize_with_info: 137-160): the call of the
\* backend with the settings of the moment and the prompt read from the
\* dictionary file now.
recognize_l94(c, language, vad_filter, readOutcome, segs) ==
    /\ callers[c].pc = "l94"
    /\ callers' = [callers EXCEPT ![c] = Idle]
    /\ LET prompt == get_initial_prompt(dictionary, readOutcome)
           read   == IF dictionary = DictAbsent THEN "none" ELSE readOutcome
       IN  IF model = Null
           THEN rec_last' = [RecStepOf("recognize", c) EXCEPT
                                 !.path = "no_backend", !.raised = "AttributeError"]
           ELSE IF IsError(prompt)
           THEN rec_last' = [RecStepOf("recognize", c) EXCEPT
                                 !.path = "prompt_raised", !.read = read,
                                 !.language = language,
                                 !.raised = prompt.error]
           ELSE rec_last' = [RecStepOf("recognize", c) EXCEPT
                                 !.path = "transcribed",
                                 !.language = language,
                                 !.read = read,
                                 !.call = TranscribeKwargs(settings, prompt,
                                                           language, vad_filter),
                                 !.backend = model,
                                 !.ret = RecognizeReturn(callers[c].fn, segs)]
    /\ UNCHANGED <<model, model_loaded, settings, build_log, dictionary, hkVars, cfgVars>>

\* reload_settings(), lines 172-185.
reload_settings(c) ==
    /\ callers[c].pc = "idle"
    /\ initialized
    /\ settings' = ReloadSettings(config, settings)
    /\ rec_last' = RecStepOf("reload_settings", c)
    /\ UNCHANGED <<model, model_loaded, callers, build_log, dictionary, hkVars, cfgVars>>

\* The user edits, creates or deletes dictionary.txt.
edit_dictionary(d) ==
    /\ d # dictionary
    /\ dictionary' = d
    /\ rec_last' = RecStep("edit_dictionary")
    /\ UNCHANGED <<model, model_loaded, settings, callers, build_log, hkVars, cfgVars>>

\* No SpeechRecognizer has been constructed.
InitNoRecognizer ==
    /\ model = Null
    /\ model_loaded = FALSE
    /\ settings = Null
    /\ callers = [c \in Callers |-> Idle]
    /\ build_log = <<>>
    /\ dictionary = DictAbsent
    /\ rec_last = RecStep("init")

(***************************************************************************)
(*                           The specifications                            *)
(***************************************************************************)

InitConfig ==
    /\ file \in SampleFiles
    /\ config = NoConfig
    /\ initialized = FALSE
    /\ default_config = DEFAULT_CONFIG
    /\ aliased = {}
    /\ origin = "none"
    /\ cfg_last = CfgStep("init")
    /\ InitHotkeyVars
    /\ InitNoRecognizer

NextConfig ==
    \/ \E r \in ReadOutcomes, s \in SaveOutcomes : construct(r, s)
    \/ \E r \in ReadOutcomes, s \in SaveOutcomes : reload(r, s)
    \/ \E a \in SetArgs : set(a)
    \/ \E s \in SaveOutcomes : save(s)
    \/ \E k \in GetPaths, d \in GetDefaults : get(k, d)
    \/ \E p \in CrashPoints : crash_in_save(p)

SpecConfig == InitConfig /\ [][NextConfig]_vars

InitConfigIdle ==
    /\ file = FileJson(DEFAULT_CONFIG)
    /\ config = NoConfig
    /\ initialized = FALSE
    /\ default_config = DEFAULT_CONFIG
    /\ aliased = {}
    /\ origin = "none"
    /\ cfg_last = CfgStep("init")

InitHotkey == Listening /\ InitConfigIdle /\ InitNoRecognizer

InitListener == Registered /\ InitConfigIdle /\ InitNoRecognizer

SpecHotkey == InitHotkey /\ [][NextHotkey]_vars

SpecListener == InitListener /\ [][NextListener]_vars

\* The module-level ConfigManager has loaded a config file that holds the
\* defaults, and SpeechRecognizer() has run (lines 19-38).
InitRecognizer ==
    /\ InitHotkeyVars
    /\ file = FileJson(DEFAULT_CONFIG)
    /\ config = DEFAULT_CONFIG
    /\ initialized = TRUE
    /\ default_config = DEFAULT_CONFIG
    /\ aliased = {}
    /\ origin = "file"
    /\ cfg_last = [CfgStep("load") EXCEPT !.pre_file = FileJson(DEFAULT_CONFIG),
                                          !.read = "ok", !.path = "loaded"]
    /\ model = Null
    /\ model_loaded = FALSE
    /\ settings = ReadSettings(DEFAULT_CONFIG)
    /\ callers = [c \in Callers |-> Idle]
    /\ build_log = <<>>
    /\ dictionary \in Dictionaries
    /\ rec_last = RecStep("init")

NextRecognizer ==
    \/ \E c \in Callers : load_model_l47(c)
    \/ \E c \in Callers, o \in BuildOutcomes : load_model_l55(c, o)
    \/ \E c \in Callers : load_model_l61(c)
    \/ \E c \in Callers, fn \in Functions : recognize_call(c, fn)
    \/ \E c \in Callers : recognize_l90(c)
    \/ \E c \in Callers, l \in Languages, v \in BOOLEAN, r \in DictReadOutcomes,
          g \in Segments : recognize_l94(c, l, v, r, g)

SpecRecognizer == InitRecognizer /\ [][NextRecognizer]_vars

\* One thread drives the recognizer while the configuration and the
\* dictionary file change.
NextSettings ==
    \/ load_model_l47("worker")
    \/ \E o \in BuildOutcomes : load_model_l55("worker", o)
    \/ load_model_l61("worker")
    \/ \E fn \in Functions : recognize_call("worker", fn)
    \/ recognize_l90("worker")
    \/ \E l \in Languages, r \in DictReadOutcomes :
          recognize_l94("worker", l, TRUE, r, <<" Hello", " world ">>)
    \/ reload_settings("worker")
    \/ \E a \in RecSetArgs : set(a)
    \/ \E d \in Dictionaries : edit_dictionary(d)

SpecSettings == InitRecognizer /\ [][NextSettings]_vars

(***************************************************************************)
(*                     Properties of the HotkeyManager                     *)
(***************************************************************************)

EventOps == {"event_l87", "event_l88", "event_l90", "event_keyerror"}
StopOps  == {"stop_l67", "stop_l68", "stop_l69", "stop_l70"}
PressCount(b)   == IF b.on_press # None THEN 1 ELSE 0
ReleaseCount(b) == IF b.on_release # None THEN 1 ELSE 0

\* C1: for a registered key that starts released, one or more 'down' events
\* followed by one 'up' invoke the press callback exactly once and the release
\* callback exactly once (when one is registered); a 'down' handled while the
\* latch is already pressed invokes no callback and leaves the latch pressed.
DebouncedPressRelease ==
    /\ \A k \in LowerKeys :
          (callbacks[k] # NoBinding /\ epi[k].active) =>
              LET b == callbacks[k]
              IN  /\ epi[k].press = PressCount(b)
                  /\ b.pressed => /\ ~epi[k].closed
                                  /\ epi[k].downs >= 1
                                  /\ epi[k].release = 0
                  /\ ~b.pressed => /\ epi[k].closed
                                   /\ epi[k].release = ReleaseCount(b)
    /\ (hk_last.op = "event_l90" /\ hk_last.type = "down" /\ hk_last.obj_pressed) =>
          /\ hk_last.fired = NoFire
          /\ hk_last.live => callbacks[hk_last.key].pressed

\* C1 witness: down, down, down, up on a binding with both callbacks.
DownDownDownUpHandled ==
    \E k \in LowerKeys :
        /\ callbacks[k] # NoBinding
        /\ epi[k].active /\ epi[k].closed /\ epi[k].downs = MaxDowns
        /\ epi[k].press = 1 /\ epi[k].release = 1
        /\ ~callbacks[k].pressed

\* C2: in every interleaving of key events with register and unregister, a
\* release callback is invoked only by an 'up' event that arrived while the
\* key's binding was pressed; an 'up' on a released latch invokes nothing; and
\* at most one release callback follows each latching 'down'.
ReleaseOnlyOncePerPress ==
    /\ (hk_last.op = "event_l90" /\ hk_last.fired.kind = "release") =>
          (hk_last.type = "up" /\ hk_last.arr_pressed /\ hk_last.obj_pressed)
    /\ (hk_last.op = "event_l90" /\ hk_last.type = "up" /\ ~hk_last.obj_pressed) =>
          hk_last.fired = NoFire
    /\ \A k \in LowerKeys : epi[k].release <= 1

\* C2 witness: an 'up' released a binding that register replaced, or unregister
\* removed, while the handler was between lines 88 and 90.
ReleaseRacedWithRegister ==
    /\ hk_last.op = "event_l90"
    /\ hk_last.fired.kind = "release"
    /\ ~hk_last.live

\* C3: register is an upsert keyed by the lower-cased identifier: at most one
\* binding per lower-cased key, and after register(key, p, r) the binding of
\* key.lower() has callbacks p and r and is released, even if it was pressed.
RegisterIsUpsert ==
    /\ \A l \in LowerKeys :
          Cardinality({k \in RawKeys : callbacks[k] # NoBinding /\ Lower(k) = l}) <= 1
    /\ hk_last.op = "register" =>
          callbacks[Lower(hk_last.key)] =
              [on_press |-> hk_last.args[1], on_release |-> hk_last.args[2],
               pressed |-> FALSE]

\* C3 witness: register('F9', ..) replaced the pressed binding of 'f9'.
ReRegisteredWhilePressed ==
    /\ hk_last.op = "register"
    /\ hk_last.key = "F9"
    /\ hk_last.obj_pressed
    /\ callbacks["f9"] # NoBinding /\ ~callbacks["f9"].pressed

\* C4: once stop() has returned, and until the next start(), no hook of this
\* listener is installed and no key event reaches the handler, however stop()
\* interleaved with the listener thread's start-up.
HookReleasedAfterStop ==
    (mpc = "idle" /\ ~running) =>
        (os_hooks = {} /\ hk_last.op \notin EventOps)

\* C5: stop() ends the listener thread, so that over any number of
\* start()/stop() cycles at most one listener thread is alive.
AtMostOneListenerAlive == Cardinality(Alive) <= 1

\* C6: start() while running creates no thread and installs no hook; stop()
\* while not running leaves the running flag, the hook and the binding table
\* unchanged.
StartStopNoOps ==
    [][/\ (hk_last'.op = "start" /\ running) =>
              UNCHANGED <<running, hook, os_hooks, threads, callbacks>>
       /\ (hk_last'.op \in StopOps /\ ~hk_last'.pre_running) =>
              UNCHANGED <<running, hook, os_hooks, callbacks>>]_vars

\* C7: when the hook cannot be installed the listener ends stopped (not
\* running), so that a later start() starts it again.
HookFailureStopsListener ==
    hk_last.op = "listener_hook_raised" => ~running

(***************************************************************************)
(*                     Properties of the ConfigManager                     *)
(***************************************************************************)

LoadOps == {"load", "reload"}
Positioned(x, y) == [DEFAULT_CONFIG EXCEPT !.map.widget.map.position = Map([x |-> x, y |-> y])]
\* A load of the file `f` that reads it: nothing but reading happens.
LoadsUnchanged(f, tree) ==
    \A s \in SaveOutcomes :
        Load(f, "ok", s) = [config |-> tree, file |-> f, path |-> "loaded", save |-> "none"]

\* C8: after any load or reload, whatever the file held, the in-memory config
\* has a version key equal to the current schema version.
VersionCurrentAfterLoad ==
    cfg_last.op \in LoadOps =>
        /\ IsMap(config)
        /\ HasKey(config, "version")
        /\ config.map.version = Num(CONFIG_VERSION)

\* C9, as claimed: loading a parsable file with no version key leaves, in
\* memory and on disk, the default tree with widget.position taken from
\* window_x / window_y when both keys are present, and a following reload does
\* not migrate again.
MigrationAsClaimed ==
    (/\ cfg_last.op \in LoadOps /\ cfg_last.read = "ok"
     /\ IsJson(cfg_last.pre_file) /\ ~HasKey(cfg_last.pre_file.json, "version")) =>
        LET old  == cfg_last.pre_file.json
            want == IF HasKey(old, "window_x") /\ HasKey(old, "window_y")
                    THEN Positioned(old.map.window_x, old.map.window_y)
                    ELSE DEFAULT_CONFIG
        IN  /\ config = want
            /\ file = FileJson(want)
            /\ LoadsUnchanged(file, want)

\* C9, amended: the position is taken over when both keys are present and not
\* null, and the file holds the migrated tree when save() could write it; a
\* following reload of that file does not migrate again.
MigrationRecoversPosition ==
    (/\ cfg_last.op \in LoadOps /\ cfg_last.read = "ok"
     /\ IsJson(cfg_last.pre_file) /\ ~HasKey(cfg_last.pre_file.json, "version")) =>
        LET old  == cfg_last.pre_file.json
            both == /\ HasKey(old, "window_x") /\ old.map.window_x # Null
                    /\ HasKey(old, "window_y") /\ old.map.window_y # Null
            want == IF both THEN Positioned(old.map.window_x, old.map.window_y)
                    ELSE DEFAULT_CONFIG
        IN  /\ config = want
            /\ cfg_last.save = "ok" =>
                  /\ file = FileJson(want)
                  /\ LoadsUnchanged(file, want)

\* C9 witness: a legacy file with both coordinates and another field was
\* migrated and written.
LegacyPositionMigrated ==
    /\ cfg_last.op \in LoadOps
    /\ cfg_last.pre_file = LegacyFile(TRUE, Num(10), TRUE, Num(20), TRUE)
    /\ cfg_last.save = "ok"
    /\ config.map.widget.map.position = Map([x |-> Num(10), y |-> Num(20)])
    /\ file = FileJson(config)

SaveCrashLeavesWholeFile ==
    cfg_last.op = "crash_in_save" =>
        \/ file = cfg_last.pre_file
        \/ file = FileJson(cfg_last.pre_config)

\* C12, as claimed: a save() whose write fails raises nothing, leaves the tree
\* in memory as it was, and hands its caller a result that a save() whose
\* write succeeded does not hand back.
SaveFailureObservable ==
    (cfg_last.op = "save" /\ cfg_last.save # "ok") =>
        /\ cfg_last.raised = "none"
        /\ config = cfg_last.pre_config
        /\ cfg_last.ret # SaveReturn("ok")

\* The keys and the value of a set() call.
SetKeys(a) == SubSeq(a, 1, Len(a) - 1)
SetValue(a) == a[Len(a)]

\* Every node the walk of `keys` meets in the tree, up to the one that holds
\* the last key, is a mapping.
RECURSIVE Walkable(_, _)
Walkable(node, keys) ==
    /\ IsMap(node)
    /\ \/ Len(keys) <= 1
       \/ ~HasKey(node, keys[1])
       \/ Walkable(node.map[keys[1]], Tail(keys))

\* C13, as claimed: after set(k1, ..., kn, v), whatever the tree held before,
\* get(k1, ..., kn) returns v.
SetThenGetAsClaimed ==
    (cfg_last.op = "set" /\ Len(cfg_last.args) >= 2) =>
        \A d \in GetDefaults :
            GetIn(config, SetKeys(cfg_last.args), d) = SetValue(cfg_last.args)

\* C13, amended: when every node that the path meets in the tree is a mapping,
\* set() raises nothing and get() of the path returns the value, absent
\* intermediate keys included; when the path meets a node that is not a
\* mapping, set() raises TypeError and leaves the tree as it was.
SetThenGetOnMappings ==
    (cfg_last.op = "set" /\ Len(cfg_last.args) >= 2) =>
        IF Walkable(cfg_last.pre_config, SetKeys(cfg_last.args))
        THEN /\ cfg_last.raised = "none"
             /\ \A d \in GetDefaults :
                    GetIn(config, SetKeys(cfg_last.args), d) = SetValue(cfg_last.args)
        ELSE /\ cfg_last.raised = "TypeError"
             /\ config = cfg_last.pre_config

\* C13 witness: a set() whose first key was absent created the intermediate
\* mapping, and get() returns the value.
SetCreatedIntermediate ==
    /\ cfg_last.op = "set"
    /\ cfg_last.args = <<"extra", "a", Num(1)>>
    /\ ~HasKey(cfg_last.pre_config, "extra")
    /\ GetIn(config, <<"extra", "a">>, Null) = Num(1)

\* The path leads to a value in the tree.
RECURSIVE Present(_, _)
Present(node, keys) ==
    \/ keys = <<>>
    \/ /\ IsMap(node)
       /\ HasKey(node, keys[1])
       /\ Present(node.map[keys[1]], Tail(keys))

\* C14: get() of a path that is not in the tree (a key missing at any depth,
\* or a node on the way that is not a mapping) returns the caller's default,
\* raises nothing and leaves the tree as it was.
GetMissingReturnsDefault ==
    (cfg_last.op = "get" /\ ~Present(cfg_last.pre_config, cfg_last.args)) =>
        /\ cfg_last.ret = cfg_last.default
        /\ cfg_last.raised = "none"
        /\ config = cfg_last.pre_config

\* C14 witness: a get() through a node that is not a mapping returned the
\* default it was given.
GetThroughScalar ==
    /\ cfg_last.op = "get"
    /\ cfg_last.args = <<"version", "k">>
    /\ cfg_last.pre_config.map.version = Num(CONFIG_VERSION)
    /\ cfg_last.default = Str("fallback")
    /\ cfg_last.ret = Str("fallback")

(***************************************************************************)
(*                   Properties of the SpeechRecognizer                    *)
(***************************************************************************)

\* The step was the test of the loaded flag at the head of recognize() or
\* recognize_with_info().
RecognizeEntered ==
    \/ rec_last.op = "recognize_l90"
    \/ rec_last.op = "recognize" /\ rec_last.path = "unloaded"

\* The step was the test of the loaded flag at the head of load_model().
LoadEntered ==
    \/ rec_last.op = "load_model_l47"
    \/ rec_last.op = "load_model" /\ rec_last.path = "already"

\* The step left the recognizer's fields as it found them and built nothing.
RecognizerUntouched ==
    /\ model = rec_last.pre_model
    /\ model_loaded = rec_last.pre_loaded
    /\ settings = rec_last.pre_settings
    /\ Len(build_log) = rec_last.pre_builds

\* C15: recognize() and recognize_with_info() on an unloaded recognizer raise
\* RuntimeError at once, whatever other calls are in flight: the backend is
\* not called, the recognizer's fields are unchanged and the caller is back.
RecognizeUnloadedFails ==
    (rec_last.op \in {"recognize", "recognize_l90"} /\ ~rec_last.pre_loaded) =>
        /\ rec_last.path = "unloaded"
        /\ rec_last.raised = "RuntimeError"
        /\ rec_last.call = Null
        /\ rec_last.backend = Null
        /\ RecognizerUntouched
        /\ callers[rec_last.caller] = Idle

\* C15 witness: a recognize_with_info() call was refused while a recognize()
\* call of the other thread was in flight.
ConcurrentCallRefused ==
    /\ rec_last.op = "recognize"
    /\ rec_last.raised = "RuntimeError"
    /\ rec_last.fn = "recognize_with_info"
    /\ \E c \in Callers \ {rec_last.caller} :
          callers[c] = [pc |-> "l90", fn |-> "recognize"]

\* C16: a load_model() whose WhisperModel(...) raises returns False and
\* leaves the model and the loaded flag as they were; a load_model() entered
\* on an unloaded recognizer goes on to construct the backend, whatever
\* happened before.
LoadFailureLeavesUnloaded ==
    /\ (rec_last.op = "load_model" /\ rec_last.path = "failed") =>
          /\ rec_last.ret = Bool(FALSE)
          /\ model = rec_last.pre_model
          /\ model_loaded = rec_last.pre_loaded
          /\ ~model_loaded
    /\ (LoadEntered /\ ~rec_last.pre_loaded) =>
          /\ callers[rec_last.caller].pc = "l55"
          /\ ~model_loaded

\* C16 witness: the first load_model() failed, and a second one constructed
\* the backend and returned True.
LoadedAfterFailure ==
    /\ rec_last.op = "load_model"
    /\ rec_last.path = "loaded"
    /\ rec_last.ret = Bool(TRUE)
    /\ build_log = <<"raises", "ok">>
    /\ model_loaded
    /\ model.id = 2

\* C17, as claimed: reload_settings() leaves the loaded backend alone, and a
\* load_model() that returns True leaves the recognizer with the backend of
\* the model the settings name.
ModelChangeTakesEffectOnLoad ==
    /\ rec_last.op = "reload_settings" => model = rec_last.pre_model
    /\ (rec_last.op = "load_model" /\ rec_last.ret = Bool(TRUE)) =>
          model.path = settings.model_path

\* C18: a load_model() entered on a loaded recognizer returns True at once,
\* constructs nothing and leaves the model and the flag as they were; while the
\* recognizer is loaded exactly one construction has succeeded, the one that
\* made the model.
LoadIdempotent ==
    /\ (LoadEntered /\ rec_last.pre_loaded) =>
          /\ rec_last.op = "load_model"
          /\ rec_last.ret = Bool(TRUE)
          /\ RecognizerUntouched
          /\ model_loaded
          /\ callers[rec_last.caller] = Idle
    /\ model_loaded =>
          /\ Cardinality({i \in 1..Len(build_log) : build_log[i] = "ok"}) = 1
          /\ build_log[model.id] = "ok"

\* C18 witness: a load_model() on a loaded recognizer returned True.
LoadedAgain ==
    /\ rec_last.op = "load_model"
    /\ rec_last.path = "already"
    /\ rec_last.ret = Bool(TRUE)
    /\ model_loaded
    /\ model.id = 1

\* The value the configuration now gives a recognition setting.
Configured(key, default) == GetIn(config, <<"recognition", key>>, default)

\* The decode settings of the recognizer are those of the configuration.
DecodeSettingsCurrent ==
    /\ settings.beam_size = Configured("beam_size", Num(5))
    /\ settings.language = Configured("language", Str("auto"))
    /\ settings.temperature = Configured("temperature", Flt(3))
    /\ settings.compression_ratio_threshold =
          Configured("compression_ratio_threshold", Flt(24))
    /\ settings.log_prob_threshold = Configured("log_prob_threshold", Flt(-10))
    /\ settings.no_speech_threshold = Configured("no_speech_threshold", Flt(6))

\* C19: reload_settings() takes the decode settings of the configuration
\* and leaves the model, the loaded flag and the constructions alone; a
\* recognize call made while they are current hands the backend the
\* configured beam size, temperature and thresholds, and the configured
\* language when the call names none and the configured one is not 'auto'.
DecodeSettingsReloaded ==
    /\ rec_last.op = "reload_settings" =>
          /\ DecodeSettingsCurrent
          /\ model = rec_last.pre_model
          /\ model_loaded = rec_last.pre_loaded
          /\ Len(build_log) = rec_last.pre_builds
    /\ (rec_last.op = "recognize" /\ rec_last.path = "transcribed"
        /\ DecodeSettingsCurrent) =>
          /\ rec_last.call.beam_size = Configured("beam_size", Num(5))
          /\ rec_last.call.temperature = Configured("temperature", Flt(3))
          /\ rec_last.call.compression_ratio_threshold =
                Configured("compression_ratio_threshold", Flt(24))
          /\ rec_last.call.log_prob_threshold =
                Configured("log_prob_threshold", Flt(-10))
          /\ rec_last.call.no_speech_threshold =
                Configured("no_speech_threshold", Flt(6))
          /\ (rec_last.language = Null
              /\ Configured("language", Str("auto")) # Str("auto")) =>
                rec_last.call.language = Configured("language", Str("auto"))
          /\ rec_last.backend = model

\* C19 witness: the one model built before the settings were changed
\* transcribed with the changed beam size, temperature, thresholds and
\* language.
RecognizedWithNewSettings ==
    /\ rec_last.op = "recognize"
    /\ rec_last.path = "transcribed"
    /\ rec_last.language = Null
    /\ rec_last.call.beam_size = Num(10)
    /\ rec_last.call.temperature = Flt(0)
    /\ rec_last.call.compression_ratio_threshold = Flt(20)
    /\ rec_last.call.log_prob_threshold = Flt(-5)
    /\ rec_last.call.no_speech_threshold = Flt(5)
    /\ rec_last.call.language = Str("en")
    /\ build_log = <<"ok">>
    /\ rec_last.backend.id = 1

\* The keyword arguments a recognize call would hand the backend now.
KwargsNow(language, vad_filter) ==
    TranscribeKwargs(settings, get_initial_prompt(dictionary, "ok"),
                     language, vad_filter)

\* C20, as claimed: a step that is not reload_settings() (a set() of the
\* configuration, a change of the dictionary file, a call) leaves the
\* arguments recognize hands the backend, the initial prompt included, as
\* they were.
ParametersFixedBetweenReloads ==
    [][rec_last'.op # "reload_settings" =>
          \A l \in Languages, v \in BOOLEAN : KwargsNow(l, v)' = KwargsNow(l, v)]_vars

\* The decode parameters of the recognition section, with DEFAULT_CONFIG's
\* values.
DecodeDefaults ==
    [beam_size                       |-> Num(5),
     temperature                     |-> Flt(3),
     compression_ratio_threshold     |-> Flt(24),
     log_prob_threshold              |-> Flt(-10),
     no_speech_threshold             |-> Flt(6),
     repetition_penalty              |-> Flt(12),
     no_repeat_ngram_size            |-> Num(3),
     suppress_tokens                 |-> List(<<-1>>),
     hallucination_silence_threshold |-> Flt(20)]

\* C21, as claimed: a recognize call made while the recognizer's settings are
\* those of the configuration hands the backend the configured value of each
\* of the nine decode parameters and the dictionary prompt, and
\* condition_on_previous_text = False.
EveryDecodeParameterPassed ==
    (rec_last.op = "recognize" /\ rec_last.path = "transcribed"
     /\ DecodeSettingsCurrent) =>
        /\ \A key \in DOMAIN DecodeDefaults :
              /\ key \in DOMAIN rec_last.call
              /\ rec_last.call[key] = Configured(key, DecodeDefaults[key])
        /\ "initial_prompt" \in DOMAIN rec_last.call
        /\ rec_last.call.condition_on_previous_text = FALSE

\* C22: the language handed to the backend is the language argument of the
\* call when one is given (None and the empty string are none), otherwise
\* the recognizer's configured language; when that value is 'auto', from
\* either origin, the backend is handed None.
LanguageResolved ==
    (rec_last.op = "recognize" /\ rec_last.path = "transcribed") =>
        LET given    == rec_last.language \notin {Null, Str("")}
            resolved == IF given THEN rec_last.language
                        ELSE rec_last.pre_settings.language
        IN  rec_last.call.language =
                IF resolved = Str("auto") THEN Null ELSE resolved

\* C22 witness: a call with language='auto' on a recognizer configured for
\* 'en' handed the backend no language.
AutoOverrideGivesNoHint ==
    /\ rec_last.op = "recognize"
    /\ rec_last.path = "transcribed"
    /\ rec_last.language = Str("auto")
    /\ rec_last.pre_settings.language = Str("en")
    /\ rec_last.call.language = Null

\* The step evaluated get_initial_prompt() inside a recognize call.
PromptComputed ==
    /\ rec_last.op = "recognize"
    /\ rec_last.path \in {"transcribed", "prompt_raised"}

\* C23, as claimed: the prompt handed to the backend is the stripped
\* non-blank lines of the dictionary file in file order joined by ", " (the
\* lines Git, a blank line and Docker give "Git, Docker"); when the file is
\* missing or cannot be read it is the empty string, and nothing is raised.
PromptFromDictionary ==
    PromptComputed =>
        /\ rec_last.raised = "none"
        /\ rec_last.call.initial_prompt =
              IF dictionary = DictAbsent \/ rec_last.read # "ok" THEN Str("")
              ELSE IF dictionary = DictLines(<<"Git", "", " Docker ">>)
              THEN Str("Git, Docker")
              ELSE Str("Kubernetes")

(***************************************************************************)
(*                  Further properties of the ConfigManager                *)
(***************************************************************************)

\* The file is a JSON object of the current layout (it has a version key).
StoredCurrent(f) == IsJson(f) /\ HasKey(f.json, "version")

HandlerSurvivesUnregister ==
    /\ hk_last.op # "event_keyerror"
    /\ (hk_last.op = "event_l87" /\ callbacks[hk_last.key] = NoBinding) =>
          /\ handler = IdleHandler
          /\ hk_last.fired = NoFire

\* C26: DEFAULT_CONFIG holds the built-in tree and shares no dict with
\* self._config, after every load, migration, set, save and reload.
DefaultsPristine ==
    /\ default_config = DEFAULT_CONFIG
    /\ aliased = {}

\* C26 witness: widget.position.x was set on a config that the last load had
\* copied from the defaults, and the defaults still hold null there.
NestedSetOnDefaultsCopy ==
    /\ cfg_last.op = "set"
    /\ cfg_last.args = <<"widget", "position", "x", Num(30)>>
    /\ origin = "defaults"
    /\ GetIn(config, <<"widget", "position", "x">>, Null) = Num(30)
    /\ GetIn(default_config, <<"widget", "position", "x">>, Str("gone")) = Null

====
